---- MODULE Spec2Model ----
(***************************************************************************)
(* A model of clickup_get_images.py: the resume ledger (three JSON files   *)
(* under images_download/), the download engine and the orchestrator       *)
(* main(), run MaxRuns times in sequence against a fixed remote workspace. *)
(*                                                                         *)
(* Python values are modelled as follows.  None, and a key that is absent  *)
(* from a JSON object, is the string "None" (for integers: NoneInt).  A    *)
(* file on disk is a record [size, src]: src names the URL whose body the  *)
(* bytes come from; the disk is the set of [path, size, src] of its files. *)
(* The metadata store is the set of its entries [key, url, size,           *)
(* downloaded_at], at most one per key.  A ledger file is                  *)
(* [kind, val]: kind is "missing", "corrupt" (not valid JSON) or "json".   *)
(* The processed-task file is a JSON array that the program only ever      *)
(* reads through set(): its val is the set of its elements.                *)
(***************************************************************************)
EXTENDS Integers, Sequences, FiniteSets, TLC

\* ------------------------------------------------------------------ bounds
MaxRuns == 2
MaxAtts == 2
MaxFaults == 1
MaxPages == 3
MaxSize == 2
MaxOps == 2
MaxImages == 3
MaxBeyond == 1

\* ------------------------------------------------------------ Python values
None == "None"
NoneInt == -1

\* Python truthiness of an int-or-None (`if expected_size and ...`).
Truthy(x) == x # NoneInt /\ x # 0

\* ------------------------------------------------------------------ remote
TaskIds == <<"t1", "t2", "t3", "t4">>
Urls == {"u1", "u2"}

\* Size in bytes of the body served at a URL.
BodySize(u) == IF u = "u1" THEN 1 ELSE 2

\* How the server answers a GET of an attachment URL.
\*   ok            the whole body arrives
\*   http_error    requests.get or raise_for_status raises (RequestException)
\*   broken_stream iter_content raises after some chunks (RequestException)
\*   bad_header    a content-length header int() cannot parse (ValueError)
UrlStatuses == {"ok", "http_error", "broken_stream", "bad_header"}

\* Answers that serve the whole body under a content-length header that is
\* absent, or that names another size than the body has.
HeaderStatuses == {"no_header", "wrong_header"}

\* r.headers.get('content-length') as a number, NoneInt when absent.
Advertised(u, status) ==
    IF status = "no_header" THEN NoneInt
    ELSE IF status = "wrong_header" THEN BodySize(u) + 1
    ELSE BodySize(u)

MimeImage == <<"image", "png">>
MimePdf == <<"application", "pdf">>
MimeAbsent == <<None, None>>

IA1 == [mimetype |-> MimeImage, title |-> "a.png", filename |-> None, url |-> "u1"]
IB2 == [mimetype |-> MimeImage, title |-> None, filename |-> "b.png", url |-> "u2"]
IA2 == [mimetype |-> MimeImage, title |-> "a.png", filename |-> "a.png", url |-> "u2"]
PDF == [mimetype |-> MimePdf, title |-> "b.png", filename |-> None, url |-> "u1"]
NOURL == [mimetype |-> MimeImage, title |-> "b.png", filename |-> None, url |-> None]
AttKinds == {IA1, IB2, IA2, PDF, NOURL}
\* An attachment without the mimetype key, and an image attachment whose
\* title and filename differ.
NOMIME == [mimetype |-> MimeAbsent, title |-> "a.png", filename |-> None, url |-> "u1"]
IAB == [mimetype |-> MimeImage, title |-> "a.png", filename |-> "b.png", url |-> "u2"]

SeqsUpTo(n) == UNION {[1..m -> AttKinds] : m \in 0..n}

\* Request keys of the REST API.
Key(kind, id, n) == [kind |-> kind, id |-> id, n |-> n]
TeamKey == Key("team", "team", 0)
ListKey(sid) == Key("lists", sid, 0)
FolderKey(sid) == Key("folders", sid, 0)
PageKey(lid, p) == Key("page", lid, p)
TaskKey(tid) == Key("task", tid, 0)

Page(ts, flag) == [tasks |-> ts, last_page |-> flag]
List(id, name, pages) == [id |-> id, name |-> name, pages |-> pages]
Space(id, name, ls, fs) == [id |-> id, name |-> name, lists |-> ls, folders |-> fs]

\* Two spaces of one list each: list A holds t1 and t2, list B holds t3.
HScenario ==
    << Space("s1", "S1", <<List("la", "A", <<Page(<<"t1", "t2">>, "true")>>)>>, <<>>),
       Space("s2", "S2", <<List("lb", "B", <<Page(<<"t3">>, "true")>>)>>, <<>>) >>

\* One space with a folder-less list and a list inside a folder; t1 is in both.
HFolder ==
    << Space("s1", "S1", <<List("la", "A", <<Page(<<"t1">>, None)>>)>>,
             << <<List("lb", "B", <<Page(<<"t1", "t2">>, "true")>>)>> >>) >>

\* A space without lists, and a list without tasks.
HEmpty ==
    << Space("s1", "S1", <<>>, <<>>),
       Space("s2", "S2", <<List("lb", "B", <<Page(<<>>, "true")>>)>>, <<>>) >>

\* One list of MaxPages pages, page p holding task p+1; the server flags the
\* pages by fl, the last one never as "false".
HPaged(fl) ==
    << Space("s1", "S1",
             <<List("la", "A", [p \in 1..MaxPages |-> Page(<<TaskIds[p]>>, fl[p])])>>,
             <<>>) >>

PageFlags ==
    {fl \in [1..MaxPages -> {"true", "false", None}] : fl[MaxPages] # "false"}

AllLists(h) ==
    UNION { {h[i].lists[j] : j \in 1..Len(h[i].lists)}
            \cup UNION { {h[i].folders[f][j] : j \in 1..Len(h[i].folders[f])}
                         : f \in 1..Len(h[i].folders) }
            : i \in 1..Len(h) }

\* The requests the counting pass can make in hierarchy h.
StructKeys(h) ==
    {TeamKey}
    \cup {ListKey(h[i].id) : i \in 1..Len(h)}
    \cup {FolderKey(h[i].id) : i \in 1..Len(h)}
    \cup UNION { {PageKey(l.id, p - 1) : p \in 1..Len(l.pages)} : l \in AllLists(h) }

World(h, d, u, b) == [spaces |-> h, detail |-> d, url |-> u, broken |-> b]

AllOk == [x \in Urls |-> "ok"]
Detail3(d1, d2, d3) ==
    [t \in {TaskIds[i] : i \in 1..Len(TaskIds)} |->
        IF t = "t1" THEN d1 ELSE IF t = "t2" THEN d2 ELSE IF t = "t3" THEN d3 ELSE <<>>]

\* The faults of a world: broken requests and URLs that do not serve their body.
Faults(w) == Cardinality(w.broken) + Cardinality({x \in Urls : w.url[x] # "ok"})

\* Worlds that vary the hierarchy: every task carries the same attachments,
\* at most one structural request is broken (the first broken one ends the run).
HierarchyWorld(w) ==
    \E h \in {HScenario, HFolder, HEmpty} \cup {HPaged(fl) : fl \in PageFlags} :
      \E d \in {<<>>, <<IB2>>} :
        \E b \in {{}} \cup {{key} : key \in StructKeys(h)} :
          w = World(h, Detail3(d, d, d), AllOk, b)

UrlsUsed(d) ==
    UNION { {d[t][i].url : i \in {j \in 1..Len(d[t]) :
                                   d[t][j].mimetype[1] = "image" /\ d[t][j].url # None}}
            : t \in DOMAIN d }

\* The faults a world of attachments d can carry: URLs that do not serve their
\* body, tasks whose detail request fails; at most MaxFaults of them.
FaultChoices(d) ==
    { f \in [url : [Urls -> UrlStatuses],
             broken : SUBSET {t \in {"t1", "t2", "t3"} : d[t] = <<>>}] :
        /\ \A x \in Urls : f.url[x] # "ok" => x \in UrlsUsed(d)
        /\ Cardinality({x \in Urls : f.url[x] # "ok"}) + Cardinality(f.broken) <= MaxFaults }

\* Worlds that vary the attachments over the scenario's hierarchy: at most
\* MaxAtts attachments in the workspace.
AttachmentWorld(w) ==
    \E d1 \in SeqsUpTo(MaxAtts) :
      \E d2 \in SeqsUpTo(MaxAtts - Len(d1)) :
        \E d3 \in SeqsUpTo(MaxAtts - Len(d1) - Len(d2)) :
          \E f \in FaultChoices(Detail3(d1, d2, d3)) :
            w = World(HScenario, Detail3(d1, d2, d3), f.url,
                      {TaskKey(t) : t \in f.broken})

\* Worlds that vary the MIME type and the names of the attachments of the
\* first task of the scenario's hierarchy; nothing fails.
MimeWorld(w) ==
    \E m \in 0..MaxAtts :
      \E d \in [1..m -> {NOMIME, IAB, PDF}] :
        w = World(HScenario, Detail3(d, <<>>, <<>>), AllOk, {})

\* ------------------------------------------------------------------ ledger
\* A destination path is <<sname, lname, fname>>: OUT_DIR / sname / lname /
\* fname relative to OUT_DIR, which is also its key in the metadata store.
Exists(dsk, path) == \E f \in dsk : f.path = path
StSize(dsk, path) == (CHOOSE f \in dsk : f.path = path).size
Unlink(dsk, path) == {f \in dsk : f.path # path}
\* open(path, "wb") and the writes: the file holds size bytes of url's body.
Written(dsk, path, size, url) ==
    Unlink(dsk, path) \cup {[path |-> path, size |-> size, src |-> url]}

Json(v) == [kind |-> "json", val |-> v]

load_metadata(mf) ==
    IF mf.kind # "missing"
    THEN IF mf.kind = "json" THEN mf.val ELSE {}
    ELSE {}

save_metadata(metadata) == Json(metadata)

\* Variant of is_duplicate that takes any file at the path for a duplicate.
is_duplicate_if_exists(dsk, mf, file_path, url, expected_size) ==
    Exists(dsk, file_path)

\* Variant of is_duplicate that does not compare the recorded URL.
is_duplicate_any_url(dsk, mf, file_path, url, expected_size) ==
    /\ Exists(dsk, file_path)
    /\ \E r \in load_metadata(mf) :
          r.key = file_path /\ r.size = StSize(dsk, file_path)

is_duplicate(dsk, mf, file_path, url, expected_size) ==
    IF ~Exists(dsk, file_path) THEN FALSE
    ELSE IF Truthy(expected_size) /\ StSize(dsk, file_path) # expected_size THEN FALSE
    ELSE LET metadata == load_metadata(mf)
         IN  IF \E r \in metadata : r.key = file_path
             THEN LET stored_info == CHOOSE r \in metadata : r.key = file_path
                  IN  /\ stored_info.url = url
                      /\ Exists(dsk, file_path)
                      /\ stored_info.size = StSize(dsk, file_path)
             ELSE FALSE

\* Variant of record_download that saves the new entry alone, without the
\* entries load_metadata returns.
record_download_alone(mf, file_path, url, size, t) ==
    save_metadata({[key |-> file_path, url |-> url, size |-> size,
                    downloaded_at |-> t]})

record_download(mf, file_path, url, size, t) ==
    save_metadata({r \in load_metadata(mf) : r.key # file_path}
                  \cup {[key |-> file_path, url |-> url, size |-> size,
                         downloaded_at |-> t]})

load_failed_downloads(ff) ==
    IF ff.kind # "missing"
    THEN IF ff.kind = "json" THEN ff.val ELSE <<>>
    ELSE <<>>

\* Variant of log_failed_download that saves the new record without the
\* records load_failed_downloads returns.
log_failed_download_alone(ff, url, dest, error, t) ==
    Json(<<[url |-> url, dest |-> dest, error |-> error, failed_at |-> t]>>)

log_failed_download(ff, url, dest, error, t) ==
    Json(Append(load_failed_downloads(ff),
                [url |-> url, dest |-> dest, error |-> error, failed_at |-> t]))

\* Variant of load_processed_tasks that returns no task, whatever the file
\* holds.
load_processed_tasks_none(pf) == {}

\* Variant of load_processed_tasks without the `except`: whatever the file
\* holds is returned.
load_processed_tasks_unguarded(pf) == IF pf.kind # "missing" THEN pf.val ELSE {}

load_processed_tasks(pf) ==
    IF pf.kind # "missing"
    THEN IF pf.kind = "json" THEN pf.val ELSE {}
    ELSE {}

\* Variant of mark_task_processed that saves the loaded ids without the new one.
mark_task_processed_noop(pf, task_id) == Json(load_processed_tasks(pf))

\* Variant of mark_task_processed that saves the new id without loading.
mark_task_processed_alone(pf, task_id) == Json({task_id})

mark_task_processed(pf, task_id) ==
    Json(load_processed_tasks(pf) \cup {task_id})

\* ---------------------------------------------------------- download engine
\* The body of download's try block: the request, the header, the streamed
\* write.  exc is the exception that leaves the block, "none" if none does.
download_try(dsk, url, dest, status) ==
    IF status = "http_error" THEN [disk |-> dsk, exc |-> "RequestException"]
    ELSE IF status = "bad_header" THEN [disk |-> dsk, exc |-> "ValueError"]
    ELSE IF status = "broken_stream"
    THEN [disk |-> Written(dsk, dest, BodySize(url) - 1, url), exc |-> "RequestException"]
    ELSE [disk |-> Written(dsk, dest, BodySize(url), url), exc |-> "none"]

\* Variant of download that does not retry a URL the failed-downloads log
\* names: it returns failure without a request.
download_unless_failed(dsk, mf, ff, url, dest, t, status) ==
    LET try == download_try(dsk, url, dest, status)
        listed == \E k \in 1..Len(load_failed_downloads(ff)) :
                     load_failed_downloads(ff)[k].url = url
    IN  IF listed
        THEN [disk |-> dsk, metaFile |-> mf, failedFile |-> ff, ret |-> "False"]
        ELSE IF try.exc = "none"
        THEN [disk |-> try.disk,
              metaFile |-> record_download(mf, dest, url, StSize(try.disk, dest), t),
              failedFile |-> ff,
              ret |-> "True"]
        ELSE IF try.exc = "RequestException"
        THEN [disk |-> IF Exists(try.disk, dest) THEN Unlink(try.disk, dest) ELSE try.disk,
              metaFile |-> mf,
              failedFile |-> log_failed_download(ff, url, dest, status, t),
              ret |-> "False"]
        ELSE [disk |-> try.disk, metaFile |-> mf, failedFile |-> ff, ret |-> "raise"]

\* Variant of download whose handler deletes nothing: a file at dest stays.
download_keeps_file(dsk, mf, ff, url, dest, t, status) ==
    LET try == download_try(dsk, url, dest, status)
    IN  IF try.exc = "none"
        THEN [disk |-> try.disk,
              metaFile |-> record_download(mf, dest, url, StSize(try.disk, dest), t),
              failedFile |-> ff,
              ret |-> "True"]
        ELSE IF try.exc = "RequestException"
        THEN [disk |-> try.disk,
              metaFile |-> mf,
              failedFile |-> log_failed_download(ff, url, dest, status, t),
              ret |-> "False"]
        ELSE [disk |-> try.disk, metaFile |-> mf, failedFile |-> ff, ret |-> "raise"]

\* Variant of download that records the size the content-length header
\* advertised instead of the size of the file.
download_records_header(dsk, mf, ff, url, dest, t, status) ==
    LET try == download_try(dsk, url, dest, status)
    IN  IF try.exc = "none"
        THEN [disk |-> try.disk,
              metaFile |-> record_download(mf, dest, url, Advertised(url, status), t),
              failedFile |-> ff,
              ret |-> "True"]
        ELSE IF try.exc = "RequestException"
        THEN [disk |-> IF Exists(try.disk, dest) THEN Unlink(try.disk, dest) ELSE try.disk,
              metaFile |-> mf,
              failedFile |-> log_failed_download(ff, url, dest, status, t),
              ret |-> "False"]
        ELSE [disk |-> try.disk, metaFile |-> mf, failedFile |-> ff, ret |-> "raise"]

\* download(url, dest) at time t.  ret is "True", "False", or "raise" when an
\* exception leaves the function.  expected_size (line 153) is computed and
\* not used.
download(dsk, mf, ff, url, dest, t, status) ==
    LET try == download_try(dsk, url, dest, status)
    IN  IF try.exc = "none"
        THEN [disk |-> try.disk,
              metaFile |-> record_download(mf, dest, url, StSize(try.disk, dest), t),
              failedFile |-> ff,
              ret |-> "True"]
        ELSE IF try.exc = "RequestException"
        THEN [disk |-> IF Exists(try.disk, dest) THEN Unlink(try.disk, dest) ELSE try.disk,
              metaFile |-> mf,
              failedFile |-> log_failed_download(ff, url, dest, status, t),
              ret |-> "False"]
        ELSE [disk |-> try.disk, metaFile |-> mf, failedFile |-> ff, ret |-> "raise"]

\* ------------------------------------------------------------------- state
VARIABLES
    remote,            \* the workspace behind the API, fixed
    run,               \* number of the current run of main()
    pc,                \* where main() is
    now,               \* time.time()
    disk,              \* the files under OUT_DIR, by relative path
    metaFile,          \* .download_metadata.json
    failedFile,        \* .failed_downloads.json
    procFile,          \* .processed_tasks.json
    processed_tasks,   \* main's locals
    spaces,
    lists,
    tasks,
    page,
    all_lists,
    tdata,
    total_tasks,
    remaining_tasks,
    total_imgs,
    failed_downloads,
    it,                \* the positions of main's for loops
    log,               \* history: what this run requested and did, in order
    prevLog,           \* history: the log of the previous run
    snap,              \* history: the three ledger files when this run began,
                       \*          the remote workspace of the run before
    call,              \* ledger harness: the last call and what it returned
    loaded,            \* ledger harness: what the three loads returned
    conc,              \* concurrent invocations: where each one is in a ledger
                       \*          function, and what it loaded
    image_paths,       \* image sorter: the fields of ImageSorter
    current_index,
    sorted_data,
    showing_full_size,
    output_file,       \* image sorter: sorted_images.json
    progress_file      \* image sorter: sorting_progress.json

fsVars == <<disk, metaFile, failedFile, procFile>>
countVars == <<spaces, lists, tasks, page, all_lists, total_tasks, remaining_tasks>>
procVars == <<tdata, total_imgs, failed_downloads>>
histVars == <<prevLog, snap>>
sorterVars == <<image_paths, current_index, sorted_data, showing_full_size,
                output_file, progress_file>>
envVars == <<remote, call, loaded, conc, sorterVars>>
vars == <<envVars, run, pc, now, fsVars, processed_tasks, countVars, procVars, it,
          log, histVars>>

NoPath == <<None, None, None>>
Ev(kind, id, n, res, url, dest) ==
    [kind |-> kind, id |-> id, n |-> n, res |-> res, url |-> url, dest |-> dest]
Req(key, res) == Ev(key.kind, key.id, key.n, res, None, NoPath)

\* time.sleep(RATE_DELAY)
Slept == Ev("sleep", None, 0, "ok", None, NoPath)

It0 == [si |-> 0, li |-> 0, ai |-> 0, ti |-> 0, k |-> 0]

NoCall == [fn |-> None, path |-> NoPath, url |-> None, size |-> NoneInt, ret |-> FALSE,
           res |-> None, before |-> {}]
NoLoad == [meta |-> {}, failed |-> <<>>, proc |-> {}]

\* The invocations that may run at the same time on one output directory.
Procs == {"p1", "p2"}
\* An invocation outside the ledger functions, with ops calls left to make.
Outside(ops) == [pc |-> "outside", fn |-> None, arg |-> None, seen |-> None,
                 missed |-> {}, lost |-> {}, left |-> ops]
\* One invocation alone: nothing runs beside main.
Alone == [p \in Procs |-> Outside(0)]

\* The image sorter's sorted data with no image in any category.
NoneSorted == [mockup |-> <<>>, other |-> <<>>, skipped |-> <<>>]
\* The image sorter is not running and has left no file.
NoSorter ==
    /\ image_paths = <<>>
    /\ current_index = 0
    /\ sorted_data = NoneSorted
    /\ showing_full_size = FALSE
    /\ output_file = [kind |-> "missing", val |-> NoneSorted]
    /\ progress_file = [kind |-> "missing", val |-> 0]

\* main is not running: its locals hold nothing.
Idle ==
    /\ processed_tasks = {}
    /\ spaces = <<>>
    /\ lists = <<>>
    /\ tasks = <<>>
    /\ page = 0
    /\ all_lists = <<>>
    /\ tdata = <<>>
    /\ total_tasks = 0
    /\ remaining_tasks = 0
    /\ total_imgs = 0
    /\ failed_downloads = 0
    /\ it = It0
    /\ log = <<>>
    /\ prevLog = <<>>

\* The first run starts on a new output directory, or on one whose ledger files
\* an earlier, interrupted run left corrupt (a fault like the others).
Init ==
    /\ HierarchyWorld(remote) \/ AttachmentWorld(remote) \/ MimeWorld(remote)
    /\ run = 1
    /\ pc = "start"
    /\ now = 1
    /\ disk = {}
    /\ \E kind \in {"missing"} \cup {c \in {"corrupt"} : Faults(remote) < MaxFaults} :
        /\ metaFile = [kind |-> kind, val |-> {}]
        /\ failedFile = [kind |-> kind, val |-> <<>>]
        /\ procFile = [kind |-> kind, val |-> {}]
        /\ snap = [remote |-> remote,
                   meta |-> [kind |-> kind, val |-> {}],
                   failed |-> [kind |-> kind, val |-> <<>>],
                   proc |-> [kind |-> kind, val |-> {}]]
    /\ Idle
    /\ call = NoCall
    /\ loaded = NoLoad
    /\ conc = Alone
    /\ NoSorter

\* --------------------------------------------------------------- API client
\* api_get raises on a non-success status.
Broken(key) == key \in remote.broken

RECURSIVE Flatten(_)
Flatten(ss) == IF ss = <<>> THEN <<>> ELSE Head(ss) \o Flatten(Tail(ss))

\* get_folder_lists: the folder-less lists, then the lists of every folder.
get_folder_lists(space) == space.lists \o Flatten(space.folders)

\* The JSON body of page p of a list; past its pages the API serves an empty
\* last page.
PageData(lst, p) ==
    IF p + 1 <= Len(lst.pages) THEN lst.pages[p + 1] ELSE Page(<<>>, "true")

\* Variant of LastPage with the default of data.get("last_page") false.
LastPageDefaultFalse(data) == data.last_page = "true"

\* data.get("last_page", True)
LastPage(data) == data.last_page = None \/ data.last_page = "true"

\* Variant of Remaining without the filter.
RemainingAll(ts, processed) == ts

\* [t for t in tasks if t["id"] not in processed_tasks]
Remaining(ts, processed) == SelectSeq(ts, LAMBDA t : t \notin processed)

\* The first entry of all_lists at or after index from with a remaining task
\* (the `continue` of the processing loop skips the others); 0 if there is none.
NextEntry(all, processed, from) ==
    LET S == {a \in from..Len(all) : Remaining(all[a].tasks, processed) # <<>>}
    IN  IF S = {} THEN 0 ELSE CHOOSE a \in S : \A b \in S : a <= b

\* ------------------------------------------------------------ orchestrator
\* Where the processing loop goes from all_lists = all: to its first remaining
\* task, or to the summary.
EnterProcessing(all, processed) ==
    LET a == NextEntry(all, processed, 1)
    IN  IF a = 0 THEN [pc |-> "summary", ai |-> 0, ti |-> 0]
        ELSE [pc |-> "task", ai |-> a, ti |-> 1]

\* The task the processing loop is at.
CurEntry == all_lists[it.ai]
CurRemaining == Remaining(CurEntry.tasks, processed_tasks)
CurTask == CurRemaining[it.ti]

\* Variant of NextTask that ends the processing loop with the list it is in.
NextTaskOfList ==
    IF it.ti < Len(CurRemaining)
    THEN [pc |-> "task", ai |-> it.ai, ti |-> it.ti + 1]
    ELSE [pc |-> "summary", ai |-> 0, ti |-> 0]

\* The next iteration of `for task in remaining_list_tasks`, of the enclosing
\* `for ... in all_lists`, or the end of both.
NextTask ==
    IF it.ti < Len(CurRemaining)
    THEN [pc |-> "task", ai |-> it.ai, ti |-> it.ti + 1]
    ELSE LET a == NextEntry(all_lists, processed_tasks, it.ai + 1)
         IN  IF a = 0 THEN [pc |-> "summary", ai |-> 0, ti |-> 0]
             ELSE [pc |-> "task", ai |-> a, ti |-> 1]

\* Variant of AfterException where the exception ends the processing loop
\* instead of the task.
AfterExceptionBreak == [pc |-> "summary", ai |-> 0, ti |-> 0]

\* main, lines 266-268: `except Exception: ... continue`.
AfterException == NextTask

\* Variant of Propagates where a failed download ends the attachment loop too.
PropagatesFailure(ret) == ret # "True"

\* main, lines 253-258: download's return value is a boolean the loop counts;
\* only an exception leaving download ends the task's attachment loop.
Propagates(ret) == ret = "raise"

\* An exception no handler of main catches ends the run.
Abort(events) ==
    /\ pc' = "aborted"
    /\ log' = log \o events

\* main, lines 172-185: create OUT_DIR, load the processed tasks.
Start ==
    /\ pc = "start"
    /\ processed_tasks' = load_processed_tasks(procFile)
    /\ pc' = "get_spaces"
    /\ UNCHANGED <<envVars, run, now, fsVars, countVars, procVars, it, log, histVars>>

\* main, lines 187-190: get_spaces.
GetSpaces ==
    /\ pc = "get_spaces"
    /\ IF Broken(TeamKey)
       THEN /\ Abort(<<Req(TeamKey, "error")>>)
            /\ UNCHANGED <<spaces, it>>
       ELSE /\ spaces' = remote.spaces
            /\ log' = Append(log, Req(TeamKey, "ok"))
            /\ IF remote.spaces = <<>>
               THEN LET c == EnterProcessing(all_lists, processed_tasks)
                    IN  /\ pc' = c.pc
                        /\ it' = [it EXCEPT !.ai = c.ai, !.ti = c.ti]
               ELSE /\ pc' = "get_lists"
                    /\ it' = [it EXCEPT !.si = 1]
    /\ UNCHANGED <<envVars, run, now, fsVars, processed_tasks, lists, tasks, page,
                   all_lists, total_tasks, remaining_tasks, procVars, histVars>>

\* Variant of AfterSpace that leaves the counting loop after the first space.
AfterSpaceStop(all) ==
    LET c == EnterProcessing(all, processed_tasks)
    IN  /\ pc' = c.pc
        /\ it' = [it EXCEPT !.ai = c.ai, !.ti = c.ti]

\* The counting loop after the lists of space it.si: the next space, or the
\* processing loop over all_lists = all.
AfterSpace(all) ==
    IF it.si < Len(spaces)
    THEN /\ pc' = "get_lists"
         /\ it' = [it EXCEPT !.si = it.si + 1]
    ELSE LET c == EnterProcessing(all, processed_tasks)
         IN  /\ pc' = c.pc
             /\ it' = [it EXCEPT !.ai = c.ai, !.ti = c.ti]

\* main, line 199: get_folder_lists(sid), two requests.
GetFolderLists ==
    /\ pc = "get_lists"
    /\ LET space == spaces[it.si]
           k1 == ListKey(space.id)
           k2 == FolderKey(space.id)
       IN  IF Broken(k1)
           THEN /\ Abort(<<Req(k1, "error")>>)
                /\ UNCHANGED <<lists, tasks, page, it>>
           ELSE IF Broken(k2)
           THEN /\ Abort(<<Req(k1, "ok"), Req(k2, "error")>>)
                /\ UNCHANGED <<lists, tasks, page, it>>
           ELSE /\ lists' = get_folder_lists(space)
                /\ log' = log \o <<Req(k1, "ok"), Req(k2, "ok")>>
                /\ tasks' = <<>>
                /\ page' = 0
                /\ IF get_folder_lists(space) = <<>>
                   THEN AfterSpace(all_lists)
                   ELSE /\ pc' = "iter_tasks"
                        /\ it' = [it EXCEPT !.li = 1]
    /\ UNCHANGED <<envVars, run, now, fsVars, processed_tasks, spaces, all_lists,
                   total_tasks, remaining_tasks, procVars, histVars>>

\* iter_tasks, one turn of its loop: request page `page` of list it.li, yield
\* its tasks, stop on the last page or sleep; then main, lines 201-206.
IterTasks ==
    /\ pc = "iter_tasks"
    /\ LET lst == lists[it.li]
           key == PageKey(lst.id, page)
           data == PageData(lst, page)
           yielded == tasks \o data.tasks
           all == Append(all_lists, [sid |-> spaces[it.si].id,
                                     sname |-> spaces[it.si].name,
                                     lst |-> [id |-> lst.id, name |-> lst.name],
                                     tasks |-> yielded])
       IN  IF Broken(key)
           THEN /\ Abort(<<Req(key, "error")>>)
                /\ UNCHANGED <<tasks, page, all_lists, total_tasks, remaining_tasks, it>>
           ELSE /\ log' = log \o <<Req(key, "ok")>>
                              \o (IF LastPage(data) THEN <<>> ELSE <<Slept>>)
                /\ IF LastPage(data)
                   THEN /\ all_lists' = all
                        /\ total_tasks' = total_tasks + Len(yielded)
                        /\ remaining_tasks' =
                              remaining_tasks + Len(Remaining(yielded, processed_tasks))
                        /\ tasks' = <<>>
                        /\ page' = 0
                        /\ IF it.li < Len(lists)
                           THEN /\ pc' = "iter_tasks"
                                /\ it' = [it EXCEPT !.li = it.li + 1]
                           ELSE AfterSpace(all)
                   ELSE /\ tasks' = yielded
                        /\ page' = page + 1
                        /\ pc' = "iter_tasks"
                        /\ UNCHANGED <<all_lists, total_tasks, remaining_tasks, it>>
    /\ UNCHANGED <<envVars, run, now, fsVars, processed_tasks, spaces, lists,
                   procVars, histVars>>

\* main, line 243: the task-detail request.  A failure is caught at line 266.
FetchTask ==
    /\ pc = "task"
    /\ LET key == TaskKey(CurTask)
       IN  IF Broken(key)
           THEN /\ log' = log \o <<Req(key, "error"),
                                   Ev("raise", CurTask, 0, "HTTPError", None, NoPath)>>
                /\ pc' = AfterException.pc
                /\ it' = [it EXCEPT !.ai = AfterException.ai, !.ti = AfterException.ti]
                /\ UNCHANGED tdata
           ELSE /\ log' = Append(log, Req(key, "ok"))
                /\ tdata' = remote.detail[CurTask]
                /\ IF remote.detail[CurTask] = <<>>
                   THEN /\ pc' = "mark"
                        /\ UNCHANGED it
                   ELSE /\ pc' = "att"
                        /\ it' = [it EXCEPT !.k = 1]
    /\ UNCHANGED <<envVars, run, now, fsVars, processed_tasks, countVars,
                   total_imgs, failed_downloads, histVars>>

\* Variant of IsImage that takes every attachment for an image.
IsImageAny(att) == TRUE

\* att.get("mimetype", "").startswith("image/")
IsImage(att) == att.mimetype[1] = "image"

\* att.get("title") or att.get("filename")
FName(att) == IF att.title # None THEN att.title ELSE att.filename

\* The exception lines 247-251 raise for this attachment before any request,
\* "none" if they raise none.
AttException(att) ==
    IF FName(att) = None THEN "TypeError"
    ELSE IF att.url = None THEN "KeyError"
    ELSE "none"

DestPath(entry, att) == <<entry.sname, entry.lst.name, FName(att)>>

\* main, lines 245-261: one turn of `for att in tdata["attachments"]`; the loop
\* sleeps after a download that returned, not after a duplicate.
EvalAttachment ==
    /\ pc = "att"
    /\ LET att == tdata[it.k]
           path == DestPath(CurEntry, att)
           dup == is_duplicate(disk, metaFile, path, att.url, NoneInt)
           dl == download(disk, metaFile, failedFile, att.url, path, now,
                          remote.url[att.url])
           raised(e) ==
               /\ pc' = AfterException.pc
               /\ it' = [it EXCEPT !.ai = AfterException.ai, !.ti = AfterException.ti]
               /\ log' = log \o e
           continue(e) ==
               /\ log' = log \o e
               /\ IF it.k < Len(tdata)
                  THEN /\ pc' = "att"
                       /\ it' = [it EXCEPT !.k = it.k + 1]
                  ELSE /\ pc' = "mark"
                       /\ UNCHANGED it
       IN  IF ~IsImage(att)
           THEN /\ continue(<<>>)
                /\ UNCHANGED <<now, fsVars, total_imgs, failed_downloads>>
           ELSE IF AttException(att) # "none"
           THEN /\ raised(<<Ev("raise", CurTask, it.k, AttException(att), None, NoPath)>>)
                /\ UNCHANGED <<now, fsVars, total_imgs, failed_downloads>>
           ELSE IF dup
           THEN /\ continue(<<Ev("dupcheck", CurTask, it.k, "True", att.url, path)>>)
                /\ UNCHANGED <<now, fsVars, total_imgs, failed_downloads>>
           ELSE /\ disk' = dl.disk
                /\ metaFile' = dl.metaFile
                /\ failedFile' = dl.failedFile
                /\ now' = now + 1
                /\ UNCHANGED procFile
                /\ total_imgs' = IF dl.ret = "True" THEN total_imgs + 1 ELSE total_imgs
                /\ failed_downloads' =
                      IF dl.ret = "False" THEN failed_downloads + 1 ELSE failed_downloads
                /\ LET e == <<Ev("dupcheck", CurTask, it.k, "False", att.url, path),
                              Ev("download", CurTask, it.k, dl.ret, att.url, path)>>
                   IN  IF Propagates(dl.ret)
                       THEN raised(e \o <<Ev("raise", CurTask, it.k, "ValueError",
                                             att.url, path)>>)
                       ELSE continue(e \o <<Slept>>)
    /\ UNCHANGED <<envVars, run, processed_tasks, countVars, tdata, histVars>>

\* main, lines 264 and 270: every attachment was evaluated without an
\* exception; the task is marked and the loop sleeps before the next task.
MarkTask ==
    /\ pc = "mark"
    /\ procFile' = mark_task_processed(procFile, CurTask)
    /\ log' = log \o <<Ev("mark", CurTask, 0, "ok", None, NoPath), Slept>>
    /\ pc' = NextTask.pc
    /\ it' = [it EXCEPT !.ai = NextTask.ai, !.ti = NextTask.ti]
    /\ UNCHANGED <<envVars, run, now, disk, metaFile, failedFile, processed_tasks,
                   countVars, procVars, histVars>>

\* main, lines 274-281: the final summary.
Summary ==
    /\ pc = "summary"
    /\ pc' = "done"
    /\ UNCHANGED <<envVars, run, now, fsVars, processed_tasks, countVars, procVars,
                   it, log, histVars>>

\* The remote workspace with its transient faults gone: every request answers,
\* every attachment URL serves its body.
Healed(w) == [w EXCEPT !.broken = {}, !.url = AllOk]

\* The program is started again on the same output directory; the remote
\* workspace is unchanged, or its faults have gone in the meantime.
NextRun ==
    /\ pc \in {"done", "aborted"}
    /\ run < MaxRuns
    /\ run' = run + 1
    /\ pc' = "start"
    /\ remote' \in {remote, Healed(remote)}
    /\ prevLog' = log
    /\ snap' = [remote |-> remote, meta |-> metaFile, failed |-> failedFile,
                proc |-> procFile]
    /\ processed_tasks' = {}
    /\ spaces' = <<>>
    /\ lists' = <<>>
    /\ tasks' = <<>>
    /\ page' = 0
    /\ all_lists' = <<>>
    /\ tdata' = <<>>
    /\ total_tasks' = 0
    /\ remaining_tasks' = 0
    /\ total_imgs' = 0
    /\ failed_downloads' = 0
    /\ it' = It0
    /\ log' = <<>>
    /\ UNCHANGED <<call, loaded, conc, sorterVars, now, fsVars>>

Next ==
    \/ Start
    \/ GetSpaces
    \/ GetFolderLists
    \/ IterTasks
    \/ FetchTask
    \/ EvalAttachment
    \/ MarkTask
    \/ Summary
    \/ NextRun

Spec == Init /\ [][Next]_vars

\* main is one sequential process: once started it keeps taking steps until it
\* ends, and the operator starts it again.
FairSpec == Spec /\ WF_vars(Next)

\* ------------------------------------------------- the first run, replayed
\* Failed-downloads files a run can find in its output directory: none, an
\* empty log, or a log that names a URL and a destination of the workspace.
FailedVariants ==
    {[kind |-> "missing", val |-> <<>>], Json(<<>>)}
    \cup {Json(<<[url |-> att.url, dest |-> <<"S1", "A", FName(att)>>,
                  error |-> "http_error", failed_at |-> 0]>>) : att \in {IA1, IB2}}

\* The first run has ended.  The output directory is put back as that run
\* found it, except for the failed-downloads file, which is replaced by
\* another one; the clock is put back, and the program is run again against
\* the same remote workspace.
Replay ==
    /\ pc \in {"done", "aborted"}
    /\ run = 1
    /\ run' = 2
    /\ pc' = "start"
    /\ now' = 1
    /\ disk' = {}
    /\ metaFile' = snap.meta
    /\ procFile' = snap.proc
    /\ \E ff \in FailedVariants \ {snap.failed} :
          /\ failedFile' = ff
          /\ snap' = [snap EXCEPT !.failed = ff]
    /\ prevLog' = log
    /\ processed_tasks' = {}
    /\ spaces' = <<>>
    /\ lists' = <<>>
    /\ tasks' = <<>>
    /\ page' = 0
    /\ all_lists' = <<>>
    /\ tdata' = <<>>
    /\ total_tasks' = 0
    /\ remaining_tasks' = 0
    /\ total_imgs' = 0
    /\ failed_downloads' = 0
    /\ it' = It0
    /\ log' = <<>>
    /\ UNCHANGED envVars

NextReplay ==
    \/ Start
    \/ GetSpaces
    \/ GetFolderLists
    \/ IterTasks
    \/ FetchTask
    \/ EvalAttachment
    \/ MarkTask
    \/ Summary
    \/ Replay

SpecReplay == Init /\ [][NextReplay]_vars

\* ------------------------------------------------------------ interruption
\* The process is terminated (a signal, a power cut) while main runs.  The
\* run ends as an aborted one; res of the event names the ledger file that was
\* being rewritten, "none" when none was.
KillEv(store) == Ev("kill", None, 0, store, None, NoPath)

\* A ledger file after open(..., 'w') truncated it and before json.dump wrote
\* all of its text: not valid JSON.
Torn(empty) == [kind |-> "corrupt", val |-> empty]

Running == {"start", "get_spaces", "get_lists", "iter_tasks", "task", "att", "mark",
            "summary"}

\* Terminated between two statements of main.
Kill ==
    /\ pc \in Running
    /\ run < MaxRuns
    /\ pc' = "aborted"
    /\ log' = Append(log, KillEv("none"))
    /\ UNCHANGED <<envVars, run, now, fsVars, processed_tasks, countVars, procVars,
                   it, histVars>>

\* Terminated inside mark_task_processed, lines 116-117.
KillInMark ==
    /\ pc = "mark"
    /\ run < MaxRuns
    /\ procFile' = Torn({})
    /\ pc' = "aborted"
    /\ log' = Append(log, KillEv("proc"))
    /\ UNCHANGED <<envVars, run, now, disk, metaFile, failedFile, processed_tasks,
                   countVars, procVars, it, histVars>>

\* Terminated inside download: in save_metadata (lines 40-41) after the file
\* was written, or in log_failed_download (lines 100-101) before the partial
\* file is deleted.
KillInDownload ==
    /\ pc = "att"
    /\ run < MaxRuns
    /\ LET att == tdata[it.k]
           path == DestPath(CurEntry, att)
           try == download_try(disk, att.url, path, remote.url[att.url])
       IN  /\ IsImage(att)
           /\ AttException(att) = "none"
           /\ ~is_duplicate(disk, metaFile, path, att.url, NoneInt)
           /\ try.exc \in {"none", "RequestException"}
           /\ disk' = try.disk
           /\ IF try.exc = "none"
              THEN metaFile' = Torn({}) /\ UNCHANGED failedFile
              ELSE failedFile' = Torn(<<>>) /\ UNCHANGED metaFile
           /\ log' = log \o <<Ev("dupcheck", CurTask, it.k, "False", att.url, path),
                               KillEv(IF try.exc = "none" THEN "meta" ELSE "failed")>>
    /\ pc' = "aborted"
    /\ UNCHANGED <<envVars, run, now, procFile, processed_tasks, countVars, procVars,
                   it, histVars>>

\* Terminated inside the write loop of download, lines 155-157: open(dest,
\* "wb") has truncated the file and fewer bytes than the body has were
\* written; no ledger file was touched.
KillInWrite ==
    /\ pc = "att"
    /\ run < MaxRuns
    /\ LET att == tdata[it.k]
           path == DestPath(CurEntry, att)
       IN  /\ IsImage(att)
           /\ AttException(att) = "none"
           /\ ~is_duplicate(disk, metaFile, path, att.url, NoneInt)
           /\ remote.url[att.url] \in {"ok", "broken_stream"}
           /\ \E s \in 0..(BodySize(att.url) - 1) :
                 disk' = Written(disk, path, s, att.url)
           /\ log' = log \o <<Ev("dupcheck", CurTask, it.k, "False", att.url, path),
                               KillEv("write")>>
    /\ pc' = "aborted"
    /\ UNCHANGED <<envVars, run, now, metaFile, failedFile, procFile, processed_tasks,
                   countVars, procVars, it, histVars>>

NextKill ==
    \/ Next
    \/ Kill
    \/ KillInMark
    \/ KillInDownload
    \/ KillInWrite

SpecKill == Init /\ [][NextKill]_vars

\* ---------------------------------------------------------- ledger harness
\* The ledger functions called once on an output directory drawn from the
\* states a ledger can be in: one destination path, its file of any size and
\* origin or none, and each ledger file missing, valid or corrupt (a corrupt
\* file still holds bytes: val is what is left of them).
HPath == <<"S1", "A", "a.png">>
HDisks == {{}} \cup {{[path |-> HPath, size |-> s, src |-> u]} : s \in 0..MaxSize, u \in Urls}
HMetas ==
    {{}} \cup {{[key |-> HPath, url |-> u, size |-> s, downloaded_at |-> 0]}
              : s \in 0..MaxSize, u \in Urls}
HFailed == {<<>>, <<[url |-> "u1", dest |-> HPath, error |-> "http_error", failed_at |-> 0]>>}
HProc == {{}, {"t1"}, {"t1", "t2"}}
\* Metadata stores that may also hold the record of a second path.
HOther == [key |-> <<"S1", "A", "b.png">>, url |-> "u2", size |-> BodySize("u2"),
           downloaded_at |-> 0]
HMetasOther == HMetas \cup {m \cup {HOther} : m \in HMetas}
LedgerFiles(vals, empty) ==
    {[kind |-> "missing", val |-> empty]}
    \cup {[kind |-> kind, val |-> v] : kind \in {"json", "corrupt"}, v \in vals}

mainVars == <<remote, run, pc, now, fsVars, processed_tasks, countVars, procVars, it,
              log, histVars>>

InitLedger ==
    /\ remote = World(<<>>, Detail3(<<>>, <<>>, <<>>), AllOk, {})
    /\ run = 0
    /\ pc = "harness"
    /\ now = 1
    /\ disk \in HDisks
    /\ metaFile \in LedgerFiles(HMetasOther, {})
    /\ failedFile \in LedgerFiles(HFailed, <<>>)
    /\ procFile \in LedgerFiles(HProc, {})
    /\ snap = [remote |-> remote, meta |-> metaFile, failed |-> failedFile,
               proc |-> procFile]
    /\ Idle
    /\ call = NoCall
    /\ loaded = NoLoad
    /\ conc = Alone
    /\ NoSorter

\* is_duplicate(HPath, u, e), e an expected size or None.
CallIsDuplicate ==
    /\ pc = "harness"
    /\ call = NoCall
    /\ \E u \in Urls, e \in {NoneInt} \cup 0..MaxSize :
         call' = [fn |-> "is_duplicate", path |-> HPath, url |-> u, size |-> e,
                  ret |-> is_duplicate(disk, metaFile, HPath, u, e), res |-> None,
                  before |-> disk]
    /\ UNCHANGED <<mainVars, loaded, conc, sorterVars>>

\* load_metadata(), load_failed_downloads(), load_processed_tasks().
CallLoad ==
    /\ pc = "harness"
    /\ call = NoCall
    /\ call' = [NoCall EXCEPT !.fn = "load"]
    /\ loaded' = [meta |-> load_metadata(metaFile),
                  failed |-> load_failed_downloads(failedFile),
                  proc |-> load_processed_tasks(procFile)]
    /\ UNCHANGED <<mainVars, conc, sorterVars>>

\* download(u, HPath) against a server that answers u by status; size is the
\* content-length the response advertised, before the disk as the call found it.
CallDownload ==
    /\ pc = "harness"
    /\ call = NoCall
    /\ \E u \in Urls, status \in UrlStatuses \cup HeaderStatuses :
         LET dl == download(disk, metaFile, failedFile, u, HPath, now, status)
         IN  /\ call' = [fn |-> "download", path |-> HPath, url |-> u,
                         size |-> Advertised(u, status), ret |-> dl.ret = "True",
                         res |-> dl.ret, before |-> disk]
             /\ disk' = dl.disk
             /\ metaFile' = dl.metaFile
             /\ failedFile' = dl.failedFile
    /\ UNCHANGED <<remote, run, pc, now, procFile, processed_tasks, countVars,
                   procVars, it, log, histVars, loaded, conc, sorterVars>>

NextLedger ==
    \/ CallIsDuplicate
    \/ CallLoad
    \/ CallDownload

SpecLedger == InitLedger /\ [][NextLedger]_vars

\* -------------------------------------------------- concurrent invocations
\* Two invocations of the program run on one output directory.  Each makes up
\* to MaxOps calls of the read-modify-write ledger functions; a call is two
\* steps, the load at its beginning and the write at its end, and the steps
\* of the two invocations interleave freely.
LedgerFns == {"record_download", "mark_task_processed", "log_failed_download"}

\* The arguments of a call: a task id for mark_task_processed, a destination
\* and a URL for the other two.
ConcArgs(fn) ==
    IF fn = "mark_task_processed"
    THEN [id : {"t1", "t2"}, path : {NoPath}, url : {None}]
    ELSE IF fn = "record_download"
    THEN [id : {None}, path : {HPath, HOther.key}, url : {"u1"}]
    ELSE [id : {None}, path : {HPath}, url : {"u1"}]

\* The file a ledger function rewrites, in the files fs.
FileOf(fn, fs) ==
    IF fn = "record_download" THEN fs.meta
    ELSE IF fn = "mark_task_processed" THEN fs.proc
    ELSE fs.failed

Files == [meta |-> metaFile, failed |-> failedFile, proc |-> procFile]

\* The entry a call adds to its store at time t.
EntryOf(fn, arg, t) ==
    IF fn = "record_download"
    THEN [key |-> arg.path, url |-> arg.url, size |-> BodySize(arg.url),
          downloaded_at |-> t]
    ELSE IF fn = "mark_task_processed" THEN arg.id
    ELSE [url |-> arg.url, dest |-> arg.path, error |-> "http_error", failed_at |-> t]

\* What identifies an entry in its store: the path of a metadata record (a
\* JSON object has one value per key), the id of a task, the record itself in
\* the failed-downloads list.
KeyOf(fn, e) == IF fn = "record_download" THEN e.key ELSE e

\* The store loaded from file f holds entry e.
Holds(fn, f, e) ==
    IF fn = "record_download" THEN e \in load_metadata(f)
    ELSE IF fn = "mark_task_processed" THEN e \in load_processed_tasks(f)
    ELSE \E k \in 1..Len(load_failed_downloads(f)) : load_failed_downloads(f)[k] = e

\* Variant of Seen in which the load and the write of a ledger function are
\* one atomic step: the function writes from the file as it is at the write.
SeenAtWrite(p, f) == f

\* The file content a ledger function modifies and writes back: what its
\* load returned (lines 73, 92, 113), whatever the file holds by now.
Seen(p, f) == conc[p].seen

\* The file a call leaves: the function applied to what it saw.
WrittenBy(p, f, t) ==
    LET c == conc[p]
    IN  IF c.fn = "record_download"
        THEN record_download(Seen(p, f), c.arg.path, c.arg.url, BodySize(c.arg.url), t)
        ELSE IF c.fn = "mark_task_processed"
        THEN mark_task_processed(Seen(p, f), c.arg.id)
        ELSE log_failed_download(Seen(p, f), c.arg.url, c.arg.path, "http_error", t)

InitConc ==
    /\ remote = World(<<>>, Detail3(<<>>, <<>>, <<>>), AllOk, {})
    /\ run = 0
    /\ pc = "concurrent"
    /\ now = 1
    /\ disk = {}
    /\ metaFile \in {[kind |-> "missing", val |-> {}], Json({HOther})}
    /\ failedFile = [kind |-> "missing", val |-> <<>>]
    /\ procFile \in {[kind |-> "missing", val |-> {}], Json({"t1"})}
    /\ snap = [remote |-> remote, meta |-> metaFile, failed |-> failedFile,
               proc |-> procFile]
    /\ Idle
    /\ call = NoCall
    /\ loaded = NoLoad
    /\ conc = [p \in Procs |-> Outside(MaxOps)]
    /\ NoSorter

\* Invocation p enters a ledger function and loads its file (lines 73, 92, 113).
ConcLoad(p) ==
    /\ pc = "concurrent"
    /\ conc[p].pc = "outside"
    /\ conc[p].left > 0
    /\ \E fn \in LedgerFns : \E arg \in ConcArgs(fn) :
          conc' = [conc EXCEPT ![p] = [pc |-> "loaded", fn |-> fn, arg |-> arg,
                                       seen |-> FileOf(fn, Files), missed |-> {},
                                       lost |-> {}, left |-> conc[p].left]]
    /\ UNCHANGED <<mainVars, call, loaded, sorterVars>>

\* Invocation p writes its file (lines 80, 100-101, 116-117) and leaves the
\* function.  History: every invocation that loaded the same file and has not
\* written yet has missed the entry; lost are the entries p missed that the
\* file p wrote does not hold.
ConcWrite(p) ==
    /\ pc = "concurrent"
    /\ conc[p].pc = "loaded"
    /\ LET c == conc[p]
           f == WrittenBy(p, FileOf(c.fn, Files), now)
           e == EntryOf(c.fn, c.arg, now)
       IN  /\ metaFile' = IF c.fn = "record_download" THEN f ELSE metaFile
           /\ procFile' = IF c.fn = "mark_task_processed" THEN f ELSE procFile
           /\ failedFile' = IF c.fn = "log_failed_download" THEN f ELSE failedFile
           /\ conc' = [q \in Procs |->
                         IF q = p
                         THEN [c EXCEPT !.pc = "outside", !.left = c.left - 1,
                                        !.lost = {x \in c.missed : ~Holds(c.fn, f, x)}]
                         ELSE IF conc[q].pc = "loaded" /\ conc[q].fn = c.fn
                         THEN [conc[q] EXCEPT !.missed = conc[q].missed \cup {e}]
                         ELSE conc[q]]
    /\ now' = now + 1
    /\ UNCHANGED <<remote, run, pc, disk, processed_tasks, countVars, procVars, it,
                   log, histVars, call, loaded, sorterVars>>

NextConc == \E p \in Procs : ConcLoad(p) \/ ConcWrite(p)

SpecConc == InitConc /\ [][NextConc]_vars

\* ------------------------------------------------------------ image sorter
\* image_sorter.py: a window that shows the images under images_download one
\* by one and files each under "mockup", "other" or "skipped" on a key press.
\* An image path is modelled by its rank in the sorted list of paths, 1 for
\* the first; 0 is the path of a file sorted in an earlier session that is no
\* longer on disk.  current_index counts from 0 as in the source.
Categories == {"mockup", "other", "skipped"}

\* path_str in self.sorted_data[cat]
Contains(seq, x) == \E k \in 1..Len(seq) : seq[k] = x

\* list.remove(x): the list without the first occurrence of x.
Remove(seq, x) ==
    LET k == CHOOSE i \in 1..Len(seq) : seq[i] = x /\ \A j \in 1..(i - 1) : seq[j] # x
    IN  SubSeq(seq, 1, k - 1) \o SubSeq(seq, k + 1, Len(seq))

load_sorted_data(f) ==
    IF f.kind # "missing"
    THEN IF f.kind = "json" THEN f.val ELSE NoneSorted
    ELSE NoneSorted

is_already_processed(data, image_path) ==
    \/ Contains(data.mockup, image_path)
    \/ Contains(data.other, image_path)
    \/ Contains(data.skipped, image_path)

\* while current_index < len(image_paths) and is_already_processed(...):
\*     current_index += 1
RECURSIVE SkipProcessed(_, _, _)
SkipProcessed(paths, data, idx) ==
    IF idx < Len(paths) /\ is_already_processed(data, paths[idx + 1])
    THEN SkipProcessed(paths, data, idx + 1)
    ELSE idx

\* Variant of RemoveFromCategories that removes nothing.
RemoveFromNone(data, image_path) == data

\* categorize_image, lines 232-234: remove the path from every category that
\* holds it.
RemoveFromCategories(data, image_path) ==
    [cat \in Categories |->
        IF Contains(data[cat], image_path) THEN Remove(data[cat], image_path)
        ELSE data[cat]]

\* The sorted data an earlier session can have left: every path in at most
\* one category, once.
SortedBy(n, a) ==
    [cat \in Categories |-> SelectSeq([k \in 1..(n + 1) |-> k - 1], LAMBDA x : a[x] = cat)]

\* __init__, lines 39 and 49-51: the state when the window is up.
InitSorter ==
    /\ remote = World(<<>>, Detail3(<<>>, <<>>, <<>>), AllOk, {})
    /\ run = 0
    /\ pc = "sorter"
    /\ now = 1
    /\ disk = {}
    /\ metaFile = [kind |-> "missing", val |-> {}]
    /\ failedFile = [kind |-> "missing", val |-> <<>>]
    /\ procFile = [kind |-> "missing", val |-> {}]
    /\ snap = [remote |-> remote, meta |-> metaFile, failed |-> failedFile,
               proc |-> procFile]
    /\ Idle
    /\ call = NoCall
    /\ loaded = NoLoad
    /\ conc = Alone
    /\ \E n \in 0..MaxImages :
         /\ image_paths = [k \in 1..n |-> k]
         /\ output_file \in
               {[kind |-> "missing", val |-> NoneSorted], [kind |-> "corrupt", val |-> NoneSorted]}
               \cup {[kind |-> "json", val |-> SortedBy(n, a)]
                      : a \in [0..n -> Categories \cup {"none"}]}
         /\ progress_file \in
               {[kind |-> "missing", val |-> 0], [kind |-> "corrupt", val |-> 0]}
               \cup {[kind |-> "json", val |-> i] : i \in 0..(n + 1)}
    /\ sorted_data = load_sorted_data(output_file)
    /\ current_index =
          SkipProcessed(image_paths, sorted_data,
                        IF progress_file.kind = "json" THEN progress_file.val ELSE 0)
    /\ showing_full_size = FALSE

\* categorize_image(category): keys 1, 2 and s.
categorize_image(category) ==
    /\ pc = "sorter"
    /\ IF current_index >= Len(image_paths)
       THEN UNCHANGED sorterVars
       ELSE LET image_path == image_paths[current_index + 1]
                removed == RemoveFromCategories(sorted_data, image_path)
                data == [removed EXCEPT ![category] = Append(@, image_path)]
            IN  /\ sorted_data' = data
                /\ output_file' = [kind |-> "json", val |-> data]
                /\ progress_file' = [kind |-> "json", val |-> current_index]
                /\ current_index' = SkipProcessed(image_paths, data, current_index + 1)
                /\ showing_full_size' = FALSE
                /\ UNCHANGED image_paths
    /\ UNCHANGED <<mainVars, call, loaded, conc>>

\* next_image: keys right and return.  The index grows with every press; the
\* model stops MaxBeyond past the last image.
next_image ==
    /\ pc = "sorter"
    /\ current_index < Len(image_paths) + MaxBeyond
    /\ current_index' = SkipProcessed(image_paths, sorted_data, current_index + 1)
    /\ showing_full_size' = FALSE
    /\ UNCHANGED <<mainVars, call, loaded, conc, image_paths, sorted_data, output_file,
                   progress_file>>

\* previous_image: key left.
previous_image ==
    /\ pc = "sorter"
    /\ IF current_index > 0
       THEN current_index' = current_index - 1 /\ showing_full_size' = FALSE
       ELSE UNCHANGED <<current_index, showing_full_size>>
    /\ UNCHANGED <<mainVars, call, loaded, conc, image_paths, sorted_data, output_file,
                   progress_file>>

\* toggle_full_size: key space.
toggle_full_size ==
    /\ pc = "sorter"
    /\ showing_full_size' = ~showing_full_size
    /\ UNCHANGED <<mainVars, call, loaded, conc, image_paths, current_index, sorted_data,
                   output_file, progress_file>>

\* quit_application: key q, or the window is closed.
quit_application ==
    /\ pc = "sorter"
    /\ output_file' = [kind |-> "json", val |-> sorted_data]
    /\ progress_file' = [kind |-> "json", val |-> current_index]
    /\ pc' = "quit"
    /\ UNCHANGED <<remote, run, now, fsVars, processed_tasks, countVars, procVars, it,
                   log, histVars, call, loaded, conc, image_paths, current_index,
                   sorted_data, showing_full_size>>

\* handle_keypress
NextSorter ==
    \/ categorize_image("mockup")
    \/ categorize_image("other")
    \/ categorize_image("skipped")
    \/ toggle_full_size
    \/ quit_application
    \/ next_image
    \/ previous_image

SpecSorter == InitSorter /\ [][NextSorter]_vars

\* ================================================================== claims
\* The task ids a processed-task file holds for the next load: those of its
\* JSON array, none when the file is missing or is not JSON.
PersistedTasks(pf) == IF pf.kind = "json" THEN pf.val ELSE {}

\* The positions of the events of the given kinds in a log.
At(l, kinds) == {i \in 1..Len(l) : l[i].kind \in kinds}

RunEnded == pc \in {"done", "aborted"}

\* The task ids the counting pass listed.
Listed == UNION { {all_lists[a].tasks[j] : j \in 1..Len(all_lists[a].tasks)}
                  : a \in 1..Len(all_lists) }

\* C1: a run issues no task-detail request, no duplicate check and no download
\* for a task whose id was in the persisted processed-task store when the run
\* started.
C1_ResumeSkipsProcessed ==
    \A i \in At(log, {"task", "dupcheck", "download"}) :
        log[i].id \notin PersistedTasks(snap.proc)

\* C1 witness: a second run that ended, met a task of the store in the listing
\* and still requested the detail of another task.
C1_Witness ==
    /\ run = 2
    /\ pc = "done"
    /\ At(log, {"task"}) # {}
    /\ Listed \cap PersistedTasks(snap.proc) # {}

\* The downloads of a log that returned success: the files a run downloaded.
Downloaded(l) == {i \in At(l, {"download"}) : l[i].res = "True"}

C3_IsDuplicateExactly ==
    call.fn = "is_duplicate" =>
        (call.ret <=>
            \E f \in disk :
                /\ f.path = call.path
                /\ call.size = NoneInt \/ f.size = call.size
                /\ metaFile.kind = "json"
                /\ \E r \in metaFile.val :
                      r.key = call.path /\ r.url = call.url /\ r.size = f.size)

\* C3 witness: with a file of non-zero size at P recorded from URL U with that
\* size, is_duplicate(P, U, 0) returned true.
C3_Witness ==
    /\ call.fn = "is_duplicate"
    /\ call.size = 0
    /\ call.ret
    /\ \E f \in disk : f.path = call.path /\ f.size # 0

\* The event that ends the processing of task T begun before position i of the
\* log: the first mark or raise of T after i; 0 if the log has none yet.
Ending(l, i, T) ==
    LET S == {m \in At(l, {"mark", "raise"}) : m > i /\ l[m].id = T}
    IN  IF S = {} THEN 0 ELSE CHOOSE m \in S : \A x \in S : m <= x

\* Attachment j of task T was evaluated (its duplicate check made) between
\* positions i and m of the log.
Evaluated(l, i, m, T, j) ==
    \E x \in At(l, {"dupcheck"}) : i < x /\ x < m /\ l[x].id = T /\ l[x].n = j

\* C4: when download returns failure for image attachment k of a task, the
\* failure itself ends nothing: every later image attachment of the task is
\* evaluated, up to the end of the attachments or to a later attachment that
\* raises, and a task that ends without an exception is marked processed.
C4_FailureDoesNotStopSiblings ==
    \A i \in At(log, {"download"}) :
        LET T == log[i].id
            k == log[i].n
            atts == remote.detail[T]
            m == Ending(log, i, T)
            stop == IF log[m].kind = "raise" THEN log[m].n ELSE Len(atts) + 1
        IN  log[i].res = "False" =>
              /\ pc = "done" => m # 0
              /\ m # 0 =>
                   /\ stop > k
                   /\ \A j \in (k + 1)..(stop - 1) :
                        IsImage(atts[j]) => Evaluated(log, i, m, T, j)
                   /\ log[m].kind = "mark" => T \in PersistedTasks(procFile)

\* C4 witness: a failed download was followed by the evaluation of a later
\* image attachment of the same task, and the task was marked.
C4_Witness ==
    \E i \in At(log, {"download"}) :
        /\ log[i].res = "False"
        /\ Ending(log, i, log[i].id) # 0
        /\ log[Ending(log, i, log[i].id)].kind = "mark"
        /\ \E j \in (log[i].n + 1)..Len(remote.detail[log[i].id]) :
             Evaluated(log, i, Ending(log, i, log[i].id), log[i].id, j)

\* The position after i of the next task-detail request of the log, one past
\* its end if there is none.
NextRequest(l, i) ==
    LET S == {x \in At(l, {"task"}) : x > i}
    IN  IF S = {} THEN Len(l) + 1 ELSE CHOOSE x \in S : \A y \in S : x <= y

\* C5: the store gains a task id exactly when the task's detail request and
\* the evaluation of all its attachments ended without an exception; a task
\* that raises is not added, the run goes on to the next task, and the next
\* run requests the task again.
C5_MarkedIffNoException ==
    /\ PersistedTasks(procFile) =
          PersistedTasks(snap.proc) \cup {log[m].id : m \in At(log, {"mark"})}
    /\ \A i \in At(log, {"task"}) :
         LET T == log[i].id
             next == NextRequest(log, i)
             seg == (i + 1)..(next - 1)
             raises == {x \in seg : log[x].kind = "raise"}
             marks == {x \in seg : log[x].kind = "mark"}
             ended == next <= Len(log) \/ pc = "done"
         IN  /\ \A x \in raises \cup marks : log[x].id = T
             /\ raises # {} => marks = {}
             /\ ended => (raises = {} <=> marks # {})
             /\ marks # {} =>
                  /\ log[i].res = "ok"
                  /\ \A j \in 1..Len(remote.detail[T]) :
                       IsImage(remote.detail[T][j]) =>
                          \E m \in marks : Evaluated(log, i, m, T, j)
    /\ pc = "done" =>
         \A t \in Listed \ PersistedTasks(snap.proc) :
            \E i \in At(log, {"task"}) : log[i].id = t
    /\ (run >= 2 /\ pc = "done") =>
         \A r \in At(prevLog, {"raise"}) :
            prevLog[r].id \notin PersistedTasks(snap.proc) =>
               \E i \in At(log, {"task"}) : log[i].id = prevLog[r].id

\* C5 witness: a task raised while its attachments were evaluated, the run
\* went on to mark a later task, and the second run requested the task again.
C5_Witness ==
    /\ run = 2
    /\ pc = "done"
    /\ \E r \in At(prevLog, {"raise"}) :
         /\ prevLog[r].n >= 1
         /\ \E m \in At(prevLog, {"mark"}) : m > r
         /\ \E i \in At(log, {"task"}) : log[i].id = prevLog[r].id

\* The list of the remote workspace with the given id.
RemoteList(lid) == CHOOSE l \in AllLists(remote.spaces) : l.id = lid

\* N: the first page the API flags as last, or leaves without the flag.
FirstLastPage(pages) ==
    CHOOSE n \in 1..Len(pages) :
        /\ pages[n].last_page # "false"
        /\ \A x \in 1..(n - 1) : pages[x].last_page = "false"

RECURSIVE TasksOfPages(_, _)
TasksOfPages(pages, n) ==
    IF n = 0 THEN <<>> ELSE TasksOfPages(pages, n - 1) \o pages[n].tasks

PageRequests(lid) == SelectSeq(log, LAMBDA e : e.kind = "page" /\ e.id = lid)

\* C6: for a list whose Nth page is the first flagged as last (or without the
\* flag), iter_tasks requests pages 0..N-1 once each in order, ends, and yields
\* the tasks of those N pages in order; a run that is done iterated every list.
C6_PaginationExact ==
    /\ \A a \in 1..Len(all_lists) :
         LET lst == RemoteList(all_lists[a].lst.id)
             N == FirstLastPage(lst.pages)
             reqs == PageRequests(lst.id)
         IN  /\ Len(reqs) = N
             /\ \A p \in 1..N : reqs[p].n = p - 1
             /\ all_lists[a].tasks = TasksOfPages(lst.pages, N)
    /\ pc = "done" =>
         \A l \in AllLists(remote.spaces) :
            \E a \in 1..Len(all_lists) : all_lists[a].lst.id = l.id

\* C6 witness: a list was iterated whose second page, of more, has no flag.
C6_Witness ==
    \E a \in 1..Len(all_lists) :
        LET lst == RemoteList(all_lists[a].lst.id)
        IN  /\ FirstLastPage(lst.pages) = 2
            /\ Len(lst.pages) > 2
            /\ lst.pages[2].last_page = None
            /\ Len(all_lists[a].tasks) = 2

\* C7: each load of a file that is not valid JSON returns the empty structure
\* a missing file gives, and what the three loads return depends on their own
\* file only: a valid file's content is returned whatever the other two hold.
C7_CorruptLoadsEmpty ==
    call.fn = "load" =>
        /\ loaded.meta = IF metaFile.kind = "json" THEN metaFile.val ELSE {}
        /\ loaded.failed = IF failedFile.kind = "json" THEN failedFile.val ELSE <<>>
        /\ loaded.proc = IF procFile.kind = "json" THEN procFile.val ELSE {}

\* C7 witness: the three stores were loaded with the processed-task file and
\* the failed-downloads file corrupt, bytes left in them, and valid metadata.
C7_Witness ==
    /\ call.fn = "load"
    /\ procFile.kind = "corrupt" /\ procFile.val # {}
    /\ failedFile.kind = "corrupt" /\ failedFile.val # <<>>
    /\ metaFile.kind = "json" /\ metaFile.val # {}
    /\ loaded.meta # {}

\* The image attachments of a task of the remote workspace.
Images(t) == SelectSeq(remote.detail[t], IsImage)

\* The scenario: two spaces of one list each, list A with two tasks of one
\* image attachment each (with a name and a URL), list B with one task without
\* image attachments; the first run, on an empty output directory; no request
\* fails.
Scenario ==
    /\ remote.spaces = HScenario
    /\ Len(Images("t1")) = 1 /\ Len(Images("t2")) = 1 /\ Len(Images("t3")) = 0
    /\ AttException(Images("t1")[1]) = "none" /\ AttException(Images("t2")[1]) = "none"
    /\ Faults(remote) = 0
    /\ run = 1
    /\ snap.proc.kind = "missing" /\ snap.meta.kind = "missing"
    /\ snap.failed.kind = "missing"

ScenarioResult ==
    /\ total_imgs = 2
    /\ Cardinality(PersistedTasks(procFile)) = 3
    /\ metaFile.kind = "json" /\ Cardinality(metaFile.val) = 2

\* C8, as claimed: a full run of the scenario downloads 2 images and ends with
\* 3 processed task ids and 2 metadata entries.
C8_Scenario == (Scenario /\ pc = "done") => ScenarioResult

\* The two image attachments of the scenario name different files.
ScenarioDistinct == FName(Images("t1")[1]) # FName(Images("t2")[1])

\* C8, amended: the same when the two image attachments have different file
\* names, hence different destination paths.
C8_ScenarioDistinctNames == (Scenario /\ ScenarioDistinct /\ pc = "done") => ScenarioResult

\* C8 witness: a run of the scenario with two differently named images is done.
C8_Witness == Scenario /\ ScenarioDistinct /\ pc = "done" /\ Cardinality(disk) = 2

\* C9, as claimed: no exception leaves download, whatever fails in the
\* request or the transfer.
C9_DownloadNeverRaises ==
    \A i \in At(log, {"download"}) : log[i].res # "raise"

\* C9 witness: a download call ended with an exception leaving download, and
\* the failed-downloads file was not written.
C9_Witness ==
    /\ \E i \in At(log, {"download"}) : log[i].res = "raise"
    /\ failedFile = snap.failed

\* C10: no step takes a task id out of the persisted processed-task store,
\* within a run or from one run to the next; mark_task_processed persists the
\* ids persisted before plus the id it is given, and nothing else writes the
\* file.
C10_ProcessedMonotonic ==
    [][ /\ PersistedTasks(procFile) \subseteq PersistedTasks(procFile')
        /\ pc = "mark" => procFile' = Json(PersistedTasks(procFile) \cup {CurTask})
        /\ pc # "mark" => procFile' = procFile ]_vars

\* C10 witness: a mark_task_processed call of a second run added an id to a
\* store that kept the ids of the first run.
C10_Witness ==
    /\ run = 2
    /\ PersistedTasks(snap.proc) # {}
    /\ \E m \in At(log, {"mark"}) : log[m].id \notin PersistedTasks(snap.proc)
    /\ PersistedTasks(snap.proc) \subseteq PersistedTasks(procFile)

\* The requests of the counting pass: spaces, lists, folders, task pages.
StructKinds == {"team", "lists", "folders", "page"}

\* C11, as claimed: every run that starts eventually reaches the final summary,
\* whatever requests and downloads fail on the way.
C11_EveryRunReachesDone == [](pc = "start" => <>(pc = "done"))

\* C11 witness: a run ended without its summary, on a failed request of the
\* counting pass.
C11_Witness ==
    /\ pc = "aborted"
    /\ log # <<>>
    /\ log[Len(log)].kind \in StructKinds
    /\ log[Len(log)].res = "error"

\* The position of the last duplicate check before position i of the log for
\* the destination checked at i, 0 if there is none: the evaluation of the
\* attachment that resolved to the same path just before.
PrevCheck(l, i) ==
    LET S == {j \in At(l, {"dupcheck"}) : j < i /\ l[j].dest = l[i].dest}
    IN  IF S = {} THEN 0 ELSE CHOOSE j \in S : \A k \in S : k <= j

\* The duplicate check at position i of the log is the last one of the run so
\* far for its destination.
LastCheck(l, i) == \A k \in At(l, {"dupcheck"}) : l[k].dest = l[i].dest => k <= i

\* The file at path holds the body served at url, and the metadata store holds
\* one record for path, with that URL.
HoldsDownload(path, url) ==
    /\ \E f \in disk : f.path = path /\ f.src = url /\ f.size = BodySize(url)
    /\ Cardinality({r \in load_metadata(metaFile) : r.key = path}) = 1
    /\ \A r \in load_metadata(metaFile) : r.key = path => r.url = url

\* The evaluation of the attachment checked at position i of the log ended
\* without an exception: it was skipped as a duplicate or download returned.
Completed(l, i) == l[i].res = "True" \/ l[i + 1].res # "raise"

\* Position i of the log is the duplicate check of the second of two
\* attachments with one destination path and different URLs, both evaluated
\* in this run, neither with an exception.
Collision(l, i) ==
    LET j == PrevCheck(l, i)
    IN  j # 0 /\ l[j].url # l[i].url /\ Completed(l, j) /\ Completed(l, i)

C13_KillKeepsLastWrite ==
    [][ (pc' = "aborted" /\ log'[Len(log')].kind = "kill") =>
           /\ load_metadata(metaFile') = load_metadata(metaFile)
           /\ load_failed_downloads(failedFile') = load_failed_downloads(failedFile)
           /\ load_processed_tasks(procFile') = load_processed_tasks(procFile) ]_vars

\* C13 witness: a run ended inside mark_task_processed after an earlier mark
\* of the same run was complete, and the next run loaded no processed task.
C13_Witness ==
    /\ run = 2
    /\ pc = "get_spaces"
    /\ prevLog # <<>>
    /\ prevLog[Len(prevLog)] = KillEv("proc")
    /\ At(prevLog, {"mark"}) # {}
    /\ processed_tasks = {}

\* The number of requests of the log with the key of the request at i.
TimesRequested(l, i) ==
    Cardinality({j \in At(l, {l[i].kind}) : l[j].id = l[i].id /\ l[j].n = l[i].n})

\* The requests for lists, folders and task pages.
WalkKinds == {"lists", "folders", "page"}

C15_PageErrorIsSkipped ==
    \A i \in At(log, {"page"}) : log[i].res = "error" => pc # "aborted"

\* C15 witness: the run ended on a failed task-page request while a list of
\* the workspace had not been requested.
C15_Witness ==
    /\ pc = "aborted"
    /\ log # <<>>
    /\ log[Len(log)].kind = "page"
    /\ log[Len(log)].res = "error"
    /\ \E lst \in AllLists(remote.spaces) :
          \A i \in At(log, {"page"}) : log[i].id # lst.id

\* The last event of the evaluation whose duplicate check is at position i of
\* the log: the check itself, or the download that followed it.
EndOfEvaluation(l, i) == IF l[i].res = "True" THEN i ELSE i + 1

\* C16, as claimed: in the processing pass the loop sleeps after every image
\* attachment it evaluated and after every task it handled, whether the task
\* ended with its mark or with an exception, before anything else happens.
C16_DelayAfterEveryAttachmentAndTask ==
    /\ \A i \in At(log, {"dupcheck"}) :
          (Completed(log, i) /\ EndOfEvaluation(log, i) < Len(log)) =>
              log[EndOfEvaluation(log, i) + 1].kind = "sleep"
    /\ \A i \in At(log, {"mark", "raise"}) :
          i < Len(log) => log[i + 1].kind = "sleep"

\* C16 witness: a task ended with an exception and the detail of the next task
\* was requested with no sleep in between.
C16_Witness ==
    \E r \in At(log, {"raise"}) : r < Len(log) /\ log[r + 1].kind = "task"

\* C17, as claimed: the decision to process a task is taken against the
\* processed-task store as persisted at that moment, so that no task-detail
\* request is made for a task marked processed earlier in the same run.
C17_DecisionsAgainstPersistedStore ==
    \A i \in At(log, {"task"}) :
        \A m \in At(log, {"mark"}) : m < i => log[m].id # log[i].id

\* C17 witness: the detail of a task was requested while the persisted store
\* held its id, marked earlier in the same run.
C17_Witness ==
    \E i \in At(log, {"task"}) :
        /\ \E m \in At(log, {"mark"}) : m < i /\ log[m].id = log[i].id
        /\ log[i].id \in PersistedTasks(procFile)
        /\ log[i].id \notin processed_tasks

\* C18: after download returned success, the metadata file is valid JSON and
\* holds one record for the destination, with the URL and the size the file
\* has on disk; the records of the other paths are those loaded before.
C18_MetadataRecordsActualSize ==
    (call.fn = "download" /\ call.res = "True") =>
        LET md == load_metadata(metaFile)
        IN  /\ metaFile.kind = "json"
            /\ Exists(disk, call.path)
            /\ Cardinality({r \in md : r.key = call.path}) = 1
            /\ \A r \in md : r.key = call.path =>
                  r.url = call.url /\ r.size = StSize(disk, call.path)
            /\ {r \in md : r.key # call.path}
                  = {r \in load_metadata(snap.meta) : r.key # call.path}

\* C18 witness: download succeeded under a content-length header that named a
\* wrong size, replacing the record of another URL next to another path's
\* record.
C18_Witness ==
    /\ call.fn = "download"
    /\ call.res = "True"
    /\ call.size # StSize(disk, call.path)
    /\ call.size # NoneInt
    /\ HOther \in load_metadata(metaFile)
    /\ \E r \in load_metadata(snap.meta) : r.key = call.path /\ r.url # call.url

\* C19: a step in which download returns failure, and so calls
\* log_failed_download, leaves the failed-downloads file holding the log it
\* held before with one record added at its end, that of the failed download;
\* every other step leaves the file as it is.
C19_FailedLogAppendOnly ==
    [][ LET old == load_failed_downloads(failedFile)
            new == load_failed_downloads(failedFile')
            d == Len(log) + 2
            failed == /\ pc = "att"
                      /\ Len(log') >= d
                      /\ log'[d].kind = "download"
                      /\ log'[d].res = "False"
        IN  IF failed
            THEN /\ failedFile'.kind = "json"
                 /\ Len(new) = Len(old) + 1
                 /\ SubSeq(new, 1, Len(old)) = old
                 /\ new[Len(new)].url = log'[d].url
                 /\ new[Len(new)].dest = log'[d].dest
            ELSE failedFile' = failedFile ]_vars

\* C19 witness: a download failed in a second run and its record follows the
\* record the first run left in the log.
C19_Witness ==
    /\ run = 2
    /\ Len(load_failed_downloads(snap.failed)) >= 1
    /\ Len(load_failed_downloads(failedFile)) = Len(load_failed_downloads(snap.failed)) + 1
    /\ \E i \in At(log, {"download"}) : log[i].res = "False"

\* C20: a run that starts from the state another run started from, except for
\* the content of the failed-downloads file, against the same remote
\* workspace, makes the same requests, duplicate checks, downloads, marks and
\* pauses in the same order with the same results, and ends in the same way.
C20_FailedLogDoesNotInfluence ==
    run = 2 =>
        /\ Len(log) <= Len(prevLog)
        /\ SubSeq(prevLog, 1, Len(log)) = log
        /\ RunEnded => log = prevLog

\* C20 witness: the replayed run is done and has downloaded, from a URL and to
\* a destination that its failed-downloads file named when it started.
C20_Witness ==
    /\ run = 2
    /\ pc = "done"
    /\ \E i \in Downloaded(log) :
          \E k \in 1..Len(load_failed_downloads(snap.failed)) :
             /\ load_failed_downloads(snap.failed)[k].url = log[i].url
             /\ load_failed_downloads(snap.failed)[k].dest = log[i].dest

\* The run before ended inside the write loop of download: its log ends with
\* the duplicate check of the attachment and the termination.
KilledInWrite ==
    /\ Len(prevLog) >= 2
    /\ prevLog[Len(prevLog)] = KillEv("write")

\* The duplicate checks of this run for the path and URL of the download the
\* run before was terminated in.
Rechecks ==
    LET k == prevLog[Len(prevLog) - 1]
    IN  {i \in At(log, {"dupcheck"}) : log[i].dest = k.dest /\ log[i].url = k.url}

\* C21: after a run was terminated in the middle of a download, leaving a
\* partial file at the destination, the first duplicate check of the next run
\* for that path and URL returns false and download is called for it (the
\* call returns, or the run is terminated inside it).
C21_PartialFileRejected ==
    (run >= 2 /\ KilledInWrite) =>
        \A i \in Rechecks :
            (\A j \in Rechecks : i <= j) =>
                /\ log[i].res = "False"
                /\ \/ log[i + 1].kind = "download"
                   \/ log[i + 1].kind = "kill" /\ log[i + 1].res # "none"

\* C21 witness: the run after the termination checked the path and URL while
\* the metadata store held a record for the path, and downloaded the file.
C21_Witness ==
    /\ run >= 2
    /\ KilledInWrite
    /\ \E i \in Rechecks :
          /\ i < Len(log)
          /\ log[i + 1].kind = "download" /\ log[i + 1].res = "True"
          /\ \E r \in load_metadata(snap.meta) : r.key = log[i].dest

\* Invocation p writes its file in this step.
Writes(p) == conc[p].pc = "loaded" /\ conc'[p].pc = "outside"

\* C22: when the ledger functions of two invocations interleave, updates are
\* lost: an entry that one invocation persisted between the load and the write
\* of the other, and that the other had not loaded and does not write itself,
\* is absent from the store after the other's write.
C22_InterleavedWritesLoseUpdates ==
    [][ \A p \in Procs :
          Writes(p) =>
             \A e \in conc[p].missed :
                (/\ ~Holds(conc[p].fn, conc[p].seen, e)
                 /\ KeyOf(conc[p].fn, e) #
                       KeyOf(conc[p].fn, EntryOf(conc[p].fn, conc[p].arg, now)))
                => ~Holds(conc[p].fn, FileOf(conc[p].fn, [meta |-> metaFile',
                                                           failed |-> failedFile',
                                                           proc |-> procFile']), e) ]_vars

\* C22 witness: an invocation has written the processed-task store, and a
\* task id the other invocation persisted is not in it.
C22_Witness ==
    \E p \in Procs :
        /\ conc[p].pc = "outside"
        /\ conc[p].fn = "mark_task_processed"
        /\ conc[p].lost # {}
        /\ \A e \in conc[p].lost : ~Holds("mark_task_processed", procFile, e)
        /\ Holds("mark_task_processed", procFile, conc[p].arg.id)

\* The phase main is in: Init until the processed tasks are loaded, Counting
\* until all_lists is complete, then Processing, then Done.
Processing == pc \in {"task", "att", "mark", "summary"}

\* Counting has enumerated the workspace: the lists and the folders of every
\* space were requested, and of every list each page up to its last one, all
\* with success.
CountingComplete ==
    /\ \A x \in 1..Len(remote.spaces) :
          \A k \in {"lists", "folders"} :
             \E i \in At(log, {k}) :
                log[i].id = remote.spaces[x].id /\ log[i].res = "ok"
    /\ \A lst \in AllLists(remote.spaces) :
          \A n \in 1..FirstLastPage(lst.pages) :
             \E i \in At(log, {"page"}) :
                log[i].id = lst.id /\ log[i].n = n - 1 /\ log[i].res = "ok"

\* The tasks the processing pass has to handle, list by list.
ToHandle ==
    Flatten([a \in 1..Len(all_lists) |-> Remaining(all_lists[a].tasks, processed_tasks)])

\* Every task to handle was handled: its detail was requested, once per
\* listing, and each request was followed by the task's mark or exception.
AllHandled ==
    /\ Cardinality(At(log, {"task"})) = Len(ToHandle)
    /\ \A j \in 1..Len(ToHandle) : \E i \in At(log, {"task"}) : log[i].id = ToHandle[j]
    /\ \A i \in At(log, {"task"}) : Ending(log, i, log[i].id) # 0

\* C23: the phases of a run follow in the order Init, Counting, Processing,
\* Done: no request is made before the processed-task set is loaded; every
\* task-detail request, duplicate check and download comes after all requests
\* of Counting, which by then has enumerated every page of every list of every
\* space; the run is done only when every remaining task was handled.
C23_PhasesInOrder ==
    /\ pc = "start" => log = <<>>
    /\ log # <<>> => processed_tasks = load_processed_tasks(snap.proc)
    /\ (Processing \/ pc = "done") => CountingComplete
    /\ \A i \in At(log, {"task", "dupcheck", "download"}) :
          /\ Processing \/ pc = "done"
          /\ \A j \in At(log, StructKinds) : j < i
    /\ pc = "done" => AllHandled

\* C23 witness: a second run is done that loaded a processed task, counted
\* two lists and handled what remained, a task that ended with its mark and
\* one that ended with an exception.
C23_Witness ==
    /\ run = 2
    /\ pc = "done"
    /\ processed_tasks # {}
    /\ Len(all_lists) >= 2
    /\ At(log, {"mark"}) # {}
    /\ At(log, {"raise"}) # {}

\* The spaces and lists whose task pages, up to the last one, list task T.
Places(T) ==
    {pl \in UNION { {[sname |-> remote.spaces[x].name, lst |-> l]
                      : l \in AllLists(<<remote.spaces[x]>>)}
                    : x \in 1..Len(remote.spaces) } :
        \E n \in 1..FirstLastPage(pl.lst.pages) :
           \E j \in 1..Len(pl.lst.pages[n].tasks) : pl.lst.pages[n].tasks[j] = T}

\* The name the file of an attachment gets: its title, or its filename when
\* it has no title.
NameOf(att) == IF att.title # None THEN att.title ELSE att.filename

\* The destinations and URLs of the image attachments of task T.
ImageTargets(T) ==
    {[dest |-> <<pl.sname, pl.lst.name, NameOf(remote.detail[T][k])>>,
      url |-> remote.detail[T][k].url]
       : pl \in Places(T),
         k \in {x \in 1..Len(remote.detail[T]) : remote.detail[T][x].mimetype[1] = "image"}}

AllImageTargets == UNION {ImageTargets(TaskIds[x]) : x \in 1..Len(TaskIds)}

\* C24: a run checks and downloads only attachments of tasks that were not
\* processed when it started and whose MIME type is an image type, and only
\* to the path <space name>/<list name>/<title, or filename without a title>;
\* every file, every metadata record and every failure record is that of an
\* image attachment: the other attachments leave no trace.
C24_OnlyImagesAtTheirPath ==
    /\ \A i \in At(log, {"dupcheck", "download"}) :
          /\ log[i].id \notin load_processed_tasks(snap.proc)
          /\ remote.detail[log[i].id][log[i].n].mimetype[1] = "image"
          /\ [dest |-> log[i].dest, url |-> log[i].url] \in ImageTargets(log[i].id)
          /\ log[i].dest[3] = NameOf(remote.detail[log[i].id][log[i].n])
    /\ \A f \in disk : [dest |-> f.path, url |-> f.src] \in AllImageTargets
    /\ \A r \in load_metadata(metaFile) :
          [dest |-> r.key, url |-> r.url] \in AllImageTargets
    /\ \A k \in 1..Len(load_failed_downloads(failedFile)) :
          [dest |-> load_failed_downloads(failedFile)[k].dest,
           url |-> load_failed_downloads(failedFile)[k].url] \in AllImageTargets

\* C24 witness: a run is done with a task that carries an attachment without
\* MIME type and an image whose title and filename differ; the image is on
\* disk under its title and the disk holds nothing else.
C24_Witness ==
    /\ pc = "done"
    /\ \E k \in 1..Len(remote.detail["t1"]) : remote.detail["t1"][k] = NOMIME
    /\ \E k \in 1..Len(remote.detail["t1"]) : remote.detail["t1"][k] = IAB
    /\ disk = {[path |-> <<"S1", "A", "a.png">>, size |-> BodySize("u2"), src |-> "u2"]}

FailedButHandled(l, ended) ==
    {i \in At(l, {"download"}) :
        /\ l[i].res = "False"
        /\ LET next == NextRequest(l, i)
           IN  /\ next <= Len(l) \/ ended
               /\ \A x \in (i + 1)..(next - 1) : l[x].kind # "raise"}

\* C26: an image attachment whose download failed while its task was handled
\* without an exception is not attempted again: the task is in the persisted
\* processed-task store from that run on, the next run makes no duplicate
\* check and no download for that attachment, and as long as the run checks
\* nothing else for the destination no file is there.
C26_FailedAttachmentNeverRetried ==
    /\ \A i \in FailedButHandled(log, pc = "done") :
          /\ log[i].id \in PersistedTasks(procFile)
          /\ LastCheck(log, i - 1) => ~Exists(disk, log[i].dest)
    /\ run >= 2 =>
          \A i \in FailedButHandled(prevLog, TRUE) :
             /\ prevLog[i].id \in PersistedTasks(snap.proc)
             /\ \A j \in At(log, {"task", "dupcheck", "download"}) :
                   log[j].id # prevLog[i].id

\* C26 witness: a second run is done against a workspace whose faults are
\* gone; the run before had failed to download an attachment of a task it
\* marked; this run requested another task, not that one, and no file is at
\* the destination of the failed download.
C26_Witness ==
    /\ run = 2
    /\ pc = "done"
    /\ remote # snap.remote
    /\ At(log, {"task"}) # {}
    /\ \E i \in FailedButHandled(prevLog, TRUE) :
          /\ remote.url[prevLog[i].url] = "ok"
          /\ ~Exists(disk, prevLog[i].dest)

\* The number of times a path is in a list.
Count(seq, x) == Cardinality({k \in 1..Len(seq) : seq[k] = x})

\* Every path is in at most one category and at most once.
WellSorted(data) ==
    \A x \in 0..MaxImages :
        Count(data.mockup, x) + Count(data.other, x) + Count(data.skipped, x) <= 1

\* C27: in the image sorter, from sorted data whose categories are disjoint
\* and free of duplicates, every key press leaves every path in at most one
\* category and at most once, in memory and in the file; a categorize key on
\* a valid current image puts that image, once, in the chosen category and in
\* no other, leaves the other paths where they were, writes the sorted data
\* and the index of that image to their files, and then moves on.
C27_SorterKeepsCategoriesDisjoint ==
    [][ /\ WellSorted(sorted_data')
        /\ WellSorted(load_sorted_data(output_file'))
        /\ \A c \in Categories :
              (categorize_image(c) /\ current_index < Len(image_paths)) =>
                 LET image_path == image_paths[current_index + 1]
                 IN  /\ Count(sorted_data'[c], image_path) = 1
                     /\ \A d \in Categories \ {c} : ~Contains(sorted_data'[d], image_path)
                     /\ \A d \in Categories : \A x \in (0..MaxImages) \ {image_path} :
                           Count(sorted_data'[d], x) = Count(sorted_data[d], x)
                     /\ output_file' = [kind |-> "json", val |-> sorted_data']
                     /\ progress_file' = [kind |-> "json", val |-> current_index]
                     /\ current_index' > current_index ]_vars

\* C27 witness: the first image was put in "mockup" after the second one, so
\* after a step back; the sorted data and the index of the first image are in
\* the files, and the sorter has moved past both images.
C27_Witness ==
    /\ pc = "sorter"
    /\ sorted_data.mockup = <<2, 1>>
    /\ output_file = [kind |-> "json", val |-> sorted_data]
    /\ progress_file = [kind |-> "json", val |-> 0]
    /\ current_index >= 2
====
